---- MODULE Spec2Model ----
(***************************************************************************)
(* Model of sndcpy.py: the lifecycle of SndcpyClient (run, _check_adb,     *)
(* _check_device, _setup_app, _connect, _stream, cleanup) and of main()    *)
(* with its signal handler.  One action per external call of the code.     *)
(***************************************************************************)
EXTENDS Integers, Sequences, FiniteSets, TLC

(* ---------------- bounds of the model ---------------- *)
MaxReads == 2        \* non-empty chunks the peer delivers before it closes
MaxSignals == 1      \* interrupt signals delivered during one run

(* ---------------- program constants ---------------- *)
BUFFER_SIZE == 4096
max_wait_time == 30
check_interval == 2

PACKAGE_NAME == <<"c","o","m",".","r","o","m","1","v",".","s","n","d","c","p","y">>
DEVICE == <<"d","e","v","i","c","e">>
RECORD_SERVICE == <<"R","e","c","o","r","d","S","e","r","v","i","c","e">>

(* Python's  needle in hay  on strings: needle occurs as a contiguous run. *)
Contains(needle, hay) ==
  \E i \in 0..(Len(hay) - Len(needle)) :
     SubSeq(hay, i + 1, i + Len(needle)) = needle

(* ---------------- outputs of the bridge tool ---------------- *)
(* stdout of  adb [-s serial] get-state  for each connection state; the    *)
(* error cases (no device, serial not found, several devices) print to     *)
(* stderr and leave stdout empty.                                          *)
GetStateStdout(report) ==
  CASE report = "device"       -> DEVICE \o <<"\n">>
    [] report = "offline"      -> <<"o","f","f","l","i","n","e","\n">>
    [] report = "unauthorized" -> <<"u","n","a","u","t","h","o","r","i","z","e","d","\n">>
    [] OTHER                   -> << >>

(* "serial_not_found" is the answer to  adb -s <serial> get-state  when the  *)
(* serial given with -s/--serial does not resolve.  The -s prefix of        *)
(* self.adb_cmd changes no branch of the code, so it is not a variable.     *)
DeviceReports ==
  {"device", "offline", "unauthorized", "no_devices", "several_devices",
   "serial_not_found"}

(* stdout of  pm list packages com.rom1v.sndcpy : one  package:<name>  line *)
(* for every installed package whose name contains the filter text.        *)
PKG_PREFIX == <<"p","a","c","k","a","g","e",":">>
PmStdout(report) ==
  CASE report = "installed" -> PKG_PREFIX \o PACKAGE_NAME \o <<"\n">>
    [] report = "other_only" -> PKG_PREFIX \o PACKAGE_NAME \o <<".","x","\n">>
    [] OTHER                 -> << >>

PmReports == {"installed", "other_only", "none"}

(* stdout of  settings get secure enabled_notification_listeners           *)
SettingsStdout(report) ==
  CASE report = "listed" -> PACKAGE_NAME \o <<"/",".","N","L">>
    [] report = "null"   -> <<"n","u","l","l","\n">>
    [] OTHER             -> << >>

SettingsReports == {"listed", "null"}

(* stdout of  dumpsys activity services com.rom1v.sndcpy                   *)
DumpsysStdout(report) ==
  CASE report = "running" -> <<"*"," ">> \o RECORD_SERVICE
    [] OTHER              -> <<"(","n","o","t","h","i","n","g",")">>

DumpsysReports == {"running", "nothing"}


(* Values socket.recv(BUFFER_SIZE) returns while the peer has data: byte    *)
(* strings of one to BUFFER_SIZE bytes.                                     *)
Chunks == {c \in {<<0>>, <<1, 0>>} : Len(c) >= 1 /\ Len(c) <= BUFFER_SIZE}

VARIABLES
  apk_exists,        \* self.apk_path.exists()
  pc,                \* position of the main flow
  pending,           \* exception in flight: "none", "exit0", "exit1", "error"
  failure,           \* the fatal condition the code found, "none" before
  exitStatus,        \* -1 while running, then the status of the process
  calls,             \* bridge calls and connects issued, in order (a run of
                     \* polls of one kind is logged once; polls counts them)
  adbResult,         \* outcome of adb version
  devReport,         \* what get-state reported
  pmReport,          \* what pm list packages reported
  rc,                \* outcome of install / appops / forward / am start
  metadata_enabled,  \* self.metadata_enabled
  permReport,        \* what the last settings query reported
  svcResult,         \* how the service poll loop ended (a local of
                     \* _wait_for_notification_permission)
  elapsed,           \* time.time() - start_time in the poll loops, in
                     \* seconds: time passes in time.sleep(check_interval),
                     \* a bridge call returns at once (the most polls a loop
                     \* can make)
  polls,             \* polls made by the poll loop being run
  handle,            \* self.socket, self.pyaudio_instance, self.audio_stream
  released,          \* number of release calls made on each handle
  data,              \* last value returned by recv
  reads,             \* values returned by recv, in order
  written,           \* values passed to audio_stream.write, in order
  loopExit,          \* how the playback loop ended
  clpc,              \* position of the cleanup() called by main's finally
  hpc,               \* position of the cleanup() called by the signal handler
  sigCount           \* signals delivered

vars == <<apk_exists, pc, pending, failure, exitStatus, calls, adbResult,
          devReport, pmReport, rc, metadata_enabled, permReport, svcResult,
          elapsed, polls, handle, released, data, reads, written, loopExit,
          clpc, hpc, sigCount>>

probes == <<adbResult, devReport, pmReport, rc>>
polling == <<metadata_enabled, permReport, svcResult, elapsed, polls>>
resources == <<handle, released>>
stream == <<data, reads, written, loopExit>>
signals == <<hpc, sigCount>>

Handles == {"socket", "pyaudio_instance", "audio_stream"}
Steps == {"install", "appops", "forward", "am_start"}

(* SndcpyClient.__init__, then main installs the handlers and calls run(). *)
Init ==
  /\ apk_exists \in BOOLEAN
  /\ pc = "check_adb"
  /\ pending = "none"
  /\ failure = "none"
  /\ exitStatus = -1
  /\ calls = << >>
  /\ adbResult = "unset"
  /\ devReport = "unset"
  /\ pmReport = "unset"
  /\ rc = [s \in Steps |-> "unset"]
  /\ metadata_enabled = FALSE
  /\ permReport = "unset"
  /\ svcResult = "unset"
  /\ elapsed = 0
  /\ polls = 0
  /\ handle = [h \in Handles |-> "none"]
  /\ released = [h \in Handles |-> 0]
  /\ data = << >>
  /\ reads = << >>
  /\ written = << >>
  /\ loopExit = "none"
  /\ clpc = "idle"
  /\ hpc = "idle"
  /\ sigCount = 0

(* The main flow advances only while no signal handler is running.         *)
MainRuns == hpc = "idle" /\ exitStatus = -1

(* An exception (SystemExit or an error) leaves client.run(): control      *)
(* enters the finally clause of main, which calls client.cleanup().        *)
Raise(exc) ==
  /\ pc' = "finally"
  /\ pending' = exc
  /\ clpc' = "c_stop"
  /\ UNCHANGED failure

(* A fatal condition was found: the code logs it, then calls sys.exit(1).  *)
Fatal(what) ==
  /\ pc' = "fatal"
  /\ failure' = what
  /\ UNCHANGED <<pending, clpc>>

LogCall(name) == calls' = Append(calls, name)

LogPoll(name) ==
  calls' = IF calls # << >> /\ calls[Len(calls)] = name
             THEN calls ELSE Append(calls, name)

(* ---------------- Environment check ---------------- *)
(* _check_adb without the test of result.returncode (line 103)             *)
_check_adb_no_returncode ==
  /\ MainRuns /\ pc = "check_adb"
  /\ LogCall("version")
  /\ \E r \in {"ok", "nonzero", "missing"} :
       /\ adbResult' = r
       /\ IF r # "missing"
            THEN pc' = "check_device" /\ UNCHANGED <<pending, failure, clpc>>
            ELSE Fatal("adb")
  /\ UNCHANGED <<apk_exists, exitStatus, devReport, pmReport, rc, polling,
                 resources, stream, signals>>

_check_adb ==
  /\ MainRuns /\ pc = "check_adb"
  /\ LogCall("version")
  /\ \E r \in {"ok", "nonzero", "missing"} :
       /\ adbResult' = r
       /\ IF r = "ok"
            THEN pc' = "check_device" /\ UNCHANGED <<pending, failure, clpc>>
            ELSE Fatal("adb")
  /\ UNCHANGED <<apk_exists, exitStatus, devReport, pmReport, rc, polling,
                 resources, stream, signals>>

(* _check_device with  if not result.stdout  in place of line 115          *)
_check_device_any_output ==
  /\ MainRuns /\ pc = "check_device"
  /\ LogCall("get-state")
  /\ \E r \in DeviceReports :
       /\ devReport' = r
       /\ IF GetStateStdout(r) = << >>
            THEN Fatal("device")
            ELSE pc' = "setup_app" /\ UNCHANGED <<pending, failure, clpc>>
  /\ UNCHANGED <<apk_exists, exitStatus, adbResult, pmReport, rc, polling,
                 resources, stream, signals>>

_check_device ==
  /\ MainRuns /\ pc = "check_device"
  /\ LogCall("get-state")
  /\ \E r \in DeviceReports :
       /\ devReport' = r
       /\ IF ~Contains(DEVICE, GetStateStdout(r))
            THEN Fatal("device")
            ELSE pc' = "setup_app" /\ UNCHANGED <<pending, failure, clpc>>
  /\ UNCHANGED <<apk_exists, exitStatus, adbResult, pmReport, rc, polling,
                 resources, stream, signals>>

(* logger.error(...); sys.exit(1)                                          *)
_sys_exit_1 ==
  /\ MainRuns /\ pc = "fatal"
  /\ Raise("exit1")
  /\ UNCHANGED <<apk_exists, exitStatus, calls, probes, polling, resources,
                 stream, signals>>

(* ---------------- App provisioner ---------------- *)
(* _setup_app with the path check of line 124 moved after the query        *)
_setup_app_query_first ==
  /\ MainRuns /\ pc = "setup_app"
  /\ LogCall("pm-list")
  /\ IF ~apk_exists
       THEN /\ Fatal("apk")
            /\ UNCHANGED pmReport
       ELSE /\ \E r \in PmReports :
                 /\ pmReport' = r
                 /\ pc' = IF Contains(PACKAGE_NAME, PmStdout(r))
                            THEN "appops" ELSE "install"
            /\ UNCHANGED <<pending, failure, clpc>>
  /\ UNCHANGED <<apk_exists, exitStatus, adbResult, devReport, rc, polling,
                 resources, stream, signals>>

(* _setup_app without the path check of lines 124-127                      *)
_setup_app_no_path_check ==
  /\ MainRuns /\ pc = "setup_app"
  /\ LogCall("pm-list")
  /\ \E r \in PmReports :
       /\ pmReport' = r
       /\ pc' = IF Contains(PACKAGE_NAME, PmStdout(r))
                  THEN "appops" ELSE "install"
  /\ UNCHANGED <<pending, failure, clpc>>
  /\ UNCHANGED <<apk_exists, exitStatus, adbResult, devReport, rc, polling,
                 resources, stream, signals>>

(* _setup_app installing whatever the package query printed                *)
_setup_app_always_install ==
  /\ MainRuns /\ pc = "setup_app"
  /\ IF ~apk_exists
       THEN /\ Fatal("apk")
            /\ UNCHANGED <<calls, pmReport>>
       ELSE /\ LogCall("pm-list")
            /\ \E r \in PmReports : pmReport' = r
            /\ pc' = "install"
            /\ UNCHANGED <<pending, failure, clpc>>
  /\ UNCHANGED <<apk_exists, exitStatus, adbResult, devReport, rc, polling,
                 resources, stream, signals>>

(* _setup_app, lines 124-135: the path check, then the package query.      *)
_setup_app_query ==
  /\ MainRuns /\ pc = "setup_app"
  /\ IF ~apk_exists
       THEN /\ Fatal("apk")
            /\ UNCHANGED <<calls, pmReport>>
       ELSE /\ LogCall("pm-list")
            /\ \E r \in PmReports :
                 /\ pmReport' = r
                 /\ pc' = IF Contains(PACKAGE_NAME, PmStdout(r))
                            THEN "appops" ELSE "install"
            /\ UNCHANGED <<pending, failure, clpc>>
  /\ UNCHANGED <<apk_exists, exitStatus, adbResult, devReport, rc, polling,
                 resources, stream, signals>>

(* The same call made with check=True semantics: a failure is fatal.       *)
Checked(at, name, step, next) ==
  /\ MainRuns /\ pc = at
  /\ LogCall(name)
  /\ \E r \in {"ok", "fail"} :
       /\ rc' = [rc EXCEPT ![step] = r]
       /\ IF r = "ok" THEN pc' = next /\ UNCHANGED <<pending, failure, clpc>>
                      ELSE Fatal(step)
  /\ UNCHANGED <<apk_exists, exitStatus, adbResult, devReport, pmReport,
                 polling, resources, stream, signals>>

(* A bridge call whose result the code does not inspect.                   *)
Unchecked(at, name, step, next) ==
  /\ MainRuns /\ pc = at
  /\ LogCall(name)
  /\ \E r \in {"ok", "fail"} : rc' = [rc EXCEPT ![step] = r]
  /\ pc' = next
  /\ UNCHANGED <<apk_exists, pending, failure, exitStatus, adbResult,
                 devReport,
                 pmReport, polling, resources, stream, clpc, signals>>

_setup_app_install == Unchecked("install", "install", "install", "appops")

_setup_app_appops == Unchecked("appops", "appops", "appops", "forward")

(* _setup_app going from the port forward to the permission check, the   *)
(* am start call of lines 159-162 left out                                 *)
_setup_app_forward_no_start ==
  Unchecked("forward", "forward", "forward", "check_perm")

_setup_app_forward == Unchecked("forward", "forward", "forward", "am_start")

(* am start, then time.sleep(1)                                            *)
_setup_app_start == Unchecked("am_start", "am-start", "am_start", "check_perm")

(* _check_notification_permission: PACKAGE_NAME in result.stdout           *)
_check_notification_permission(report) ==
  Contains(PACKAGE_NAME, SettingsStdout(report))

(* _setup_app, lines 167-171                                               *)
_setup_app_permission ==
  /\ MainRuns /\ pc = "check_perm"
  /\ LogPoll("settings")
  /\ \E r \in SettingsReports :
       /\ permReport' = r
       /\ IF _check_notification_permission(r)
            THEN /\ metadata_enabled' = TRUE
                 /\ pc' = "connect_socket"   \* _setup_app returns
                 /\ UNCHANGED <<elapsed, polls>>
            ELSE /\ pc' = "wait_perm"        \* start_time = time.time()
                 /\ elapsed' = 0
                 /\ polls' = 0
                 /\ UNCHANGED metadata_enabled
  /\ UNCHANGED <<apk_exists, pending, failure, exitStatus, probes, svcResult,
                 resources,
                 stream, clpc, signals>>

(* the first loop with  <=  in place of  <  in the test of line 238       *)
_wait_permission_poll_inclusive ==
  /\ MainRuns /\ pc = "wait_perm"
  /\ IF elapsed <= max_wait_time
       THEN /\ LogPoll("settings")
            /\ polls' = polls + 1
            /\ \E r \in SettingsReports :
                 /\ permReport' = r
                 /\ IF _check_notification_permission(r)
                      THEN /\ metadata_enabled' = TRUE
                           /\ pc' = "wait_svc_start"
                           /\ UNCHANGED elapsed
                      ELSE /\ elapsed' = elapsed + check_interval
                           /\ pc' = "wait_perm"
                           /\ UNCHANGED metadata_enabled
       ELSE /\ pc' = "wait_svc_start"
            /\ UNCHANGED <<calls, polls, elapsed, metadata_enabled,
                           permReport>>
  /\ UNCHANGED <<apk_exists, pending, failure, exitStatus, probes, svcResult,
                 resources, stream, clpc, signals>>

(* _wait_for_notification_permission, first loop (lines 238-245)           *)
_wait_permission_poll ==
  /\ MainRuns /\ pc = "wait_perm"
  /\ IF elapsed < max_wait_time
       THEN /\ LogPoll("settings")
            /\ polls' = polls + 1
            /\ \E r \in SettingsReports :
                 /\ permReport' = r
                 /\ IF _check_notification_permission(r)
                      THEN /\ metadata_enabled' = TRUE
                           /\ pc' = "wait_svc_start"
                           /\ UNCHANGED elapsed
                      ELSE /\ elapsed' = elapsed + check_interval
                           /\ pc' = "wait_perm"
                           /\ UNCHANGED metadata_enabled
       ELSE /\ pc' = "wait_svc_start"
            /\ UNCHANGED <<calls, polls, elapsed, metadata_enabled,
                           permReport>>
  /\ UNCHANGED <<apk_exists, pending, failure, exitStatus, probes, svcResult,
                 resources,
                 stream, clpc, signals>>

(* lines 247-248: start_time = time.time()                                 *)
_wait_service_start ==
  /\ MainRuns /\ pc = "wait_svc_start"
  /\ elapsed' = 0
  /\ polls' = 0
  /\ pc' = "wait_svc"
  /\ UNCHANGED <<apk_exists, pending, failure, exitStatus, calls, probes,
                 metadata_enabled, permReport, svcResult, resources, stream,
                 clpc, signals>>

(* the second loop with the commented-out outcome of lines 265-266: a     *)
(* timeout switches the metadata features off                              *)
_wait_service_poll_disables ==
  /\ MainRuns /\ pc = "wait_svc"
  /\ IF elapsed < max_wait_time
       THEN /\ LogPoll("dumpsys")
            /\ polls' = polls + 1
            /\ \E r \in DumpsysReports :
                 IF Contains(RECORD_SERVICE, DumpsysStdout(r))
                   THEN /\ svcResult' = "detected"
                        /\ pc' = "wait_return"
                        /\ UNCHANGED elapsed
                   ELSE /\ elapsed' = elapsed + check_interval
                        /\ pc' = "wait_svc"
                        /\ UNCHANGED svcResult
            /\ UNCHANGED metadata_enabled
       ELSE /\ svcResult' = "timeout"
            /\ metadata_enabled' = FALSE
            /\ pc' = "wait_return"
            /\ UNCHANGED <<calls, polls, elapsed>>
  /\ UNCHANGED <<apk_exists, pending, failure, exitStatus, probes, permReport,
                 resources, stream, clpc, signals>>

(* second loop (lines 249-263)                                             *)
_wait_service_poll ==
  /\ MainRuns /\ pc = "wait_svc"
  /\ IF elapsed < max_wait_time
       THEN /\ LogPoll("dumpsys")
            /\ polls' = polls + 1
            /\ \E r \in DumpsysReports :
                 IF Contains(RECORD_SERVICE, DumpsysStdout(r))
                   THEN /\ svcResult' = "detected"
                        /\ pc' = "wait_return"
                        /\ UNCHANGED elapsed
                   ELSE /\ elapsed' = elapsed + check_interval
                        /\ pc' = "wait_svc"
                        /\ UNCHANGED svcResult
       ELSE /\ svcResult' = "timeout"
            /\ pc' = "wait_return"
            /\ UNCHANGED <<calls, polls, elapsed>>
  /\ UNCHANGED <<apk_exists, pending, failure, exitStatus, probes,
                 metadata_enabled, permReport, resources, stream, clpc,
                 signals>>

(* line 267: return False; the locals of the function (start_time, the    *)
(* outcome of the second loop) go out of scope, and _setup_app returns.    *)
_wait_return ==
  /\ MainRuns /\ pc = "wait_return"
  /\ elapsed' = 0
  /\ polls' = 0
  /\ svcResult' = "unset"
  /\ pc' = "connect_socket"
  /\ UNCHANGED <<apk_exists, pending, failure, exitStatus, calls, probes,
                 metadata_enabled, permReport, resources, stream, clpc,
                 signals>>

(* ---------------- Stream connector ---------------- *)
(* line 177: self.socket = socket.socket(...)                              *)
_connect_socket ==
  /\ MainRuns /\ pc = "connect_socket"
  /\ handle' = [handle EXCEPT !["socket"] = "open"]
  /\ pc' = "connect"
  /\ UNCHANGED <<apk_exists, pending, failure, exitStatus, calls, probes,
                 polling,
                 released, stream, clpc, signals>>

(* _connect logging the socket.error without the sys.exit(1) of line 183  *)
_connect_no_exit ==
  /\ MainRuns /\ pc = "connect"
  /\ LogCall("connect")
  /\ \E ok \in BOOLEAN :
       /\ failure' = IF ok THEN failure ELSE "connect"
       /\ pc' = "stream_pyaudio"
       /\ UNCHANGED <<pending, clpc>>
  /\ UNCHANGED <<apk_exists, exitStatus, probes, polling, resources, stream,
                 signals>>

(* lines 178-183: connect; socket.error is fatal                           *)
_connect ==
  /\ MainRuns /\ pc = "connect"
  /\ LogCall("connect")
  /\ \E ok \in BOOLEAN :
       IF ok THEN pc' = "stream_pyaudio" /\ UNCHANGED <<pending, failure,
                                                        clpc>>
             ELSE Fatal("connect")
  /\ UNCHANGED <<apk_exists, exitStatus, probes, polling, resources, stream,
                 signals>>

(* ---------------- Playback loop ---------------- *)
(* line 187: pyaudio.PyAudio(); a failure is not caught inside run()       *)
_stream_pyaudio ==
  /\ MainRuns /\ pc = "stream_pyaudio"
  /\ \E ok \in BOOLEAN :
       IF ok
         THEN /\ handle' = [handle EXCEPT !["pyaudio_instance"] = "open"]
              /\ pc' = "stream_open"
              /\ UNCHANGED <<pending, failure, clpc>>
         ELSE /\ Raise("error")
              /\ UNCHANGED handle
  /\ UNCHANGED <<apk_exists, exitStatus, calls, probes, polling, released,
                 stream, signals>>

(* lines 188-193: self.pyaudio_instance.open(...)                          *)
_stream_open ==
  /\ MainRuns /\ pc = "stream_open"
  /\ \E ok \in BOOLEAN :
       IF ok
         THEN /\ handle' = [handle EXCEPT !["audio_stream"] = "open"]
              /\ pc' = "recv"
              /\ UNCHANGED <<pending, failure, clpc>>
         ELSE /\ Raise("error")
              /\ UNCHANGED handle
  /\ UNCHANGED <<apk_exists, exitStatus, calls, probes, polling, released,
                 stream, signals>>

(* The loop is left: by break or by one of the except clauses.             *)
LeaveLoop(how) == pc' = "stream_end" /\ loopExit' = how

(* the loop without  if not data: break  (lines 200-202)                   *)
_stream_recv_no_break ==
  /\ MainRuns /\ pc = "recv"
  /\ \/ \E c \in Chunks \cup {<< >>} :
          /\ handle["socket"] = "open" /\ Len(reads) < MaxReads + 1
          /\ data' = c
          /\ reads' = Append(reads, c)
          /\ pc' = "write"
          /\ UNCHANGED loopExit
     \/ /\ LeaveLoop("ioerror")
        /\ UNCHANGED <<data, reads>>
  /\ UNCHANGED <<apk_exists, pending, failure, exitStatus, calls, probes,
                 polling, resources, written, clpc, signals>>

(* lines 199-202: data = self.socket.recv(BUFFER_SIZE); if not data: break *)
_stream_recv ==
  /\ MainRuns /\ pc = "recv"
  /\ \/ \E c \in Chunks :
          /\ handle["socket"] = "open" /\ Len(reads) < MaxReads
          /\ data' = c
          /\ reads' = Append(reads, c)
          /\ pc' = "write"
          /\ UNCHANGED loopExit
     \/ /\ handle["socket"] = "open"
        /\ data' = << >>
        /\ reads' = Append(reads, << >>)
        /\ LeaveLoop("closed")
     \/ /\ LeaveLoop("ioerror")        \* socket.timeout, socket.error
        /\ UNCHANGED <<data, reads>>
  /\ UNCHANGED <<apk_exists, pending, failure, exitStatus, calls, probes,
                 polling,
                 resources, written, clpc, signals>>

(* line 203 writing only the first byte of data                            *)
_stream_write_first_byte ==
  /\ MainRuns /\ pc = "write"
  /\ \/ /\ handle["audio_stream"] = "open"
        /\ written' = Append(written, SubSeq(data, 1, 1))
        /\ pc' = "recv"
        /\ UNCHANGED loopExit
     \/ /\ LeaveLoop("ioerror")
        /\ UNCHANGED written
  /\ UNCHANGED <<apk_exists, pending, failure, exitStatus, calls, probes,
                 polling, resources, data, reads, clpc, signals>>

(* line 203 outside the try: a failed write is caught by no except clause  *)
_stream_write_uncaught ==
  /\ MainRuns /\ pc = "write"
  /\ \/ /\ handle["audio_stream"] = "open"
        /\ written' = Append(written, data)
        /\ pc' = "recv"
        /\ UNCHANGED <<loopExit, pending, failure, clpc>>
     \/ /\ Raise("error")
        /\ loopExit' = "ioerror"
        /\ UNCHANGED written
  /\ UNCHANGED <<apk_exists, exitStatus, calls, probes, polling, resources,
                 data, reads, signals>>

(* line 203: self.audio_stream.write(data)                                 *)
_stream_write ==
  /\ MainRuns /\ pc = "write"
  /\ \/ /\ handle["audio_stream"] = "open"
        /\ written' = Append(written, data)
        /\ pc' = "recv"
        /\ UNCHANGED loopExit
     \/ /\ LeaveLoop("ioerror")        \* except Exception
        /\ UNCHANGED written
  /\ UNCHANGED <<apk_exists, pending, failure, exitStatus, calls, probes,
                 polling,
                 resources, data, reads, clpc, signals>>

(* _stream and run return; main enters its finally clause.                 *)
_stream_return ==
  /\ MainRuns /\ pc = "stream_end"
  /\ Raise("none")
  /\ UNCHANGED <<apk_exists, exitStatus, calls, probes, polling, resources,
                 stream, signals>>

(* ---------------- Teardown ---------------- *)
(* cleanup() with the socket closed first (lines 277-278 moved to the top) *)
CleanupStep_socket_first(pos, next, raised) ==
  CASE pos = "c_stop" ->
         /\ ~raised
         /\ next = IF handle["audio_stream"] = "none"
                     THEN "c_pyaudio" ELSE "c_close"
         /\ IF handle["socket"] = "none"
              THEN UNCHANGED resources
              ELSE /\ released' = [released EXCEPT !["socket"] = @ + 1]
                   /\ handle' = [handle EXCEPT !["socket"] = "closed"]
    [] pos = "c_close" ->
         /\ released' = [released EXCEPT !["audio_stream"] = @ + 1]
         /\ handle' = [handle EXCEPT !["audio_stream"] = "closed"]
         /\ next = "c_pyaudio"
         /\ (raised => handle["audio_stream"] = "closed")
    [] pos = "c_pyaudio" ->
         /\ next = "c_socket" /\ ~raised
         /\ IF handle["pyaudio_instance"] = "none"
              THEN UNCHANGED resources
              ELSE /\ released' =
                        [released EXCEPT !["pyaudio_instance"] = @ + 1]
                   /\ handle' =
                        [handle EXCEPT !["pyaudio_instance"] = "closed"]
    [] pos = "c_socket" ->
         /\ next = "c_end" /\ ~raised
         /\ UNCHANGED resources

(* One statement of cleanup() (lines 272-278) run at position pos: its     *)
(* effect on the handles, the position after it, and whether it raised.    *)
(* The attributes keep their objects after a release, so the truth tests   *)
(* of lines 272, 275 and 277 pass for a handle that is already closed.     *)
(* What stop_stream() and close() do on a stream that is already closed    *)
(* is the audio library's choice: they return or raise.                    *)
CleanupStep(pos, next, raised) ==
  CASE pos = "c_stop" ->                       \* lines 272-273
         /\ UNCHANGED resources
         /\ IF handle["audio_stream"] = "none"
              THEN next = "c_pyaudio" /\ ~raised
              ELSE /\ next = "c_close"
                   /\ (raised => handle["audio_stream"] = "closed")
    [] pos = "c_close" ->                      \* line 274
         /\ released' = [released EXCEPT !["audio_stream"] = @ + 1]
         /\ handle' = [handle EXCEPT !["audio_stream"] = "closed"]
         /\ next = "c_pyaudio"
         /\ (raised => handle["audio_stream"] = "closed")
    [] pos = "c_pyaudio" ->                    \* lines 275-276
         /\ next = "c_socket" /\ ~raised
         /\ IF handle["pyaudio_instance"] = "none"
              THEN UNCHANGED resources
              ELSE /\ released' = [released EXCEPT !["pyaudio_instance"] = @ + 1]
                   /\ handle' = [handle EXCEPT !["pyaudio_instance"] = "closed"]
    [] pos = "c_socket" ->                     \* lines 277-278
         /\ next = "c_end" /\ ~raised
         /\ IF handle["socket"] = "none"
              THEN UNCHANGED resources
              ELSE /\ released' = [released EXCEPT !["socket"] = @ + 1]
                   /\ handle' = [handle EXCEPT !["socket"] = "closed"]

CleanupPositions == {"c_stop", "c_close", "c_pyaudio", "c_socket"}

(* Exit status of the interpreter for the exception that ends it.          *)
Status(exc) == IF exc \in {"none", "exit0"} THEN 0 ELSE 1

Terminate(exc) ==
  /\ pc' = "exited"
  /\ pending' = exc
  /\ exitStatus' = Status(exc)
  /\ clpc' = "idle"
  /\ UNCHANGED failure

(* main, lines 327-328: client.cleanup() in the finally clause             *)
_main_cleanup ==
  /\ MainRuns /\ pc = "finally" /\ clpc \in CleanupPositions
  /\ \E next \in CleanupPositions \cup {"c_end"}, raised \in BOOLEAN :
       /\ CleanupStep(clpc, next, raised)
       /\ IF raised
            THEN Terminate("error")
            ELSE clpc' = next /\ UNCHANGED <<pc, pending, failure, exitStatus>>
  /\ UNCHANGED <<apk_exists, calls, probes, polling, stream, signals>>

(* The finally clause ends: the exception in flight ends the process.      *)
_main_exit ==
  /\ MainRuns /\ pc = "finally" /\ clpc = "c_end"
  /\ Terminate(pending)
  /\ UNCHANGED <<apk_exists, calls, probes, polling, resources, stream,
                 signals>>

(* ---------------- Signal handler ---------------- *)
(* SIGINT or SIGTERM is delivered: signal_handler starts (line 318).  A    *)
(* handler that is interrupted by a second signal never resumes, because   *)
(* the inner handler leaves by an exception that unwinds it too; hpc is    *)
(* therefore the position of the innermost handler.                        *)
signal_handler ==
  /\ exitStatus = -1 /\ sigCount < MaxSignals
  /\ sigCount' = sigCount + 1
  /\ hpc' = "c_stop"
  /\ UNCHANGED <<apk_exists, pc, pending, failure, exitStatus, calls, probes,
                 polling,
                 resources, stream, clpc>>

(* An exception leaves the handler and is raised in the main flow where    *)
(* it was interrupted.  Inside the try of _stream an error is caught by    *)
(* except Exception; SystemExit is caught nowhere; inside the finally      *)
(* clause of main the exception replaces the one in flight.                *)
Throw(exc) ==
  IF pc = "finally"
    THEN Terminate(exc) /\ UNCHANGED loopExit
    ELSE IF exc = "error" /\ pc \in {"recv", "write"}
      THEN LeaveLoop("ioerror") /\ UNCHANGED <<pending, failure, exitStatus,
                                               clpc>>
      ELSE Raise(exc) /\ UNCHANGED <<exitStatus, loopExit>>

(* line 319: client.cleanup() inside the handler                           *)
_handler_cleanup ==
  /\ exitStatus = -1 /\ hpc \in CleanupPositions
  /\ \E next \in CleanupPositions \cup {"c_end"}, raised \in BOOLEAN :
       /\ CleanupStep(hpc, next, raised)
       /\ IF raised
            THEN hpc' = "idle" /\ Throw("error")
            ELSE hpc' = next
                 /\ UNCHANGED <<pc, pending, failure, exitStatus, clpc,
                                loopExit>>
  /\ UNCHANGED <<apk_exists, calls, probes, polling, data, reads, written,
                 sigCount>>

(* the handler without line 320: it returns and the main flow resumes      *)
_handler_exit_returns ==
  /\ exitStatus = -1 /\ hpc = "c_end"
  /\ hpc' = "idle"
  /\ UNCHANGED <<apk_exists, pc, pending, failure, exitStatus, calls, probes,
                 polling, resources, stream, clpc, sigCount>>

(* line 320 as sys.exit(1)                                                 *)
_handler_exit_status_1 ==
  /\ exitStatus = -1 /\ hpc = "c_end"
  /\ hpc' = "idle"
  /\ Throw("exit1")
  /\ UNCHANGED <<apk_exists, calls, probes, polling, resources, data, reads,
                 written, sigCount>>

(* line 320: sys.exit(0)                                                   *)
_handler_exit ==
  /\ exitStatus = -1 /\ hpc = "c_end"
  /\ hpc' = "idle"
  /\ Throw("exit0")
  /\ UNCHANGED <<apk_exists, calls, probes, polling, resources, data, reads,
                 written, sigCount>>

(* ---------------- the program ---------------- *)
Next ==
  \/ _check_adb
  \/ _check_device
  \/ _sys_exit_1
  \/ _setup_app_query
  \/ _setup_app_install
  \/ _setup_app_appops
  \/ _setup_app_forward
  \/ _setup_app_start
  \/ _setup_app_permission
  \/ _wait_permission_poll
  \/ _wait_service_start
  \/ _wait_service_poll
  \/ _wait_return
  \/ _connect_socket
  \/ _connect
  \/ _stream_pyaudio
  \/ _stream_open
  \/ _stream_recv
  \/ _stream_write
  \/ _stream_return
  \/ _main_cleanup
  \/ _main_exit
  \/ signal_handler
  \/ _handler_cleanup
  \/ _handler_exit

Spec == Init /\ [][Next]_vars

(* The main thread is the only one: when no handler is running it goes on  *)
(* executing the permission wait, so a step of the wait that stays enabled *)
(* is eventually taken.                                                    *)
WaitStep ==
  \/ _wait_permission_poll
  \/ _wait_service_start
  \/ _wait_service_poll
  \/ _wait_return

FairSpec == Spec /\ WF_vars(WaitStep)

(* ======================= properties ======================= *)
Count(name) == Cardinality({i \in 1..Len(calls) : calls[i] = name})
Issued(name) == \E i \in 1..Len(calls) : calls[i] = name
Exited == exitStatus # -1
Uninterrupted == sigCount = 0
NoSink == handle["pyaudio_instance"] = "none" /\ handle["audio_stream"] = "none"

(* C1: when the adb version check fails (tool missing or non-zero return    *)
(* code), the version query is the only external call of the run, no       *)
(* socket is created, and the process, once it has exited without having   *)
(* been interrupted by a signal, has status 1.                             *)
C1_AdbFailureExits ==
  adbResult \in {"nonzero", "missing"} =>
    /\ calls = <<"version">>
    /\ handle["socket"] = "none" /\ NoSink
    /\ failure = "adb"
    /\ (Exited /\ Uninterrupted => exitStatus = 1)

C1_Witness ==
  adbResult = "nonzero" /\ exitStatus = 1 /\ Uninterrupted

(* C2: when get-state does not report a ready device (an unresolved        *)
(* serial included), no install, forward or launch call is ever issued,    *)
(* and the process, once exited uninterrupted, has status 1.               *)
C2_NoDeviceExits ==
  devReport \notin {"unset", "device"} =>
    /\ ~Issued("install") /\ ~Issued("forward") /\ ~Issued("am-start")
    /\ failure = "device"
    /\ (Exited /\ Uninterrupted => exitStatus = 1)

C2_Witness ==
  devReport = "serial_not_found" /\ exitStatus = 1 /\ Uninterrupted

(* C3 as stated: when the package path check fails, no subprocess call of  *)
(* any kind has been issued during the run.                                *)
C3_NoCallBeforePathCheck ==
  failure = "apk" => calls = << >>

(* C3 amended: when the package path check fails, the bridge version query *)
(* and the device-state query, in that order, are the only subprocess      *)
(* calls of the run, and the process, once exited uninterrupted, has       *)
(* status 1.                                                               *)
C3_OnlyEnvironmentCalls ==
  failure = "apk" =>
    /\ calls = <<"version", "get-state">>
    /\ (Exited /\ Uninterrupted => exitStatus = 1)

C3_Witness ==
  failure = "apk" /\ exitStatus = 1 /\ Uninterrupted

(* C4: when the package path does not exist, the install call is never     *)
(* issued, nor the package query, permission grant, forward or launch,     *)
(* and the process, once exited uninterrupted, has status 1.               *)
C4_MissingPackageNoInstall ==
  ~apk_exists =>
    /\ \A c \in {"install", "pm-list", "appops", "forward", "am-start"} :
         ~Issued(c)
    /\ (Exited /\ Uninterrupted => exitStatus = 1)

C4_Witness ==
  ~apk_exists /\ devReport = "device" /\ exitStatus = 1 /\ Uninterrupted

(* C5 as stated: once the install call has failed, no permission grant,    *)
(* forward, launch or connect is issued, no sink is opened, and the        *)
(* process, once exited uninterrupted, has status 1.                       *)
C5_InstallFailureFatal ==
  rc["install"] = "fail" =>
    /\ \A c \in {"appops", "forward", "am-start", "connect"} : ~Issued(c)
    /\ NoSink /\ reads = << >> /\ written = << >>
    /\ (Exited /\ Uninterrupted => exitStatus = 1)

(* C6: install is never issued in a run whose package query output names   *)
(* the capture app, and is issued exactly once, after the query, in a run  *)
(* whose query output does not name it.                                    *)
AppListed == Contains(PACKAGE_NAME, PmStdout(pmReport))

BestEffort == {"appops", "forward", "am_start"}

C7_BestEffortNotFatal ==
  ((\E s \in BestEffort : rc[s] = "fail") /\ Uninterrupted) =>
    /\ failure \in {"none", "connect"}
    /\ (pc \in {"fatal", "finally", "exited"} => Issued("connect"))
    /\ (Issued("connect") =>
          \A c \in {"appops", "forward", "am-start", "settings"} :
             Count(c) = 1)

C7_Witness ==
  /\ \A s \in BestEffort : rc[s] = "fail"
  /\ Issued("connect") /\ Uninterrupted

(* C8: when the connect fails, the audio sink is never opened, nothing is  *)
(* read or written, the connect was issued once, and the process, once     *)
(* exited uninterrupted, has status 1.                                     *)
C8_ConnectFailureExits ==
  failure = "connect" =>
    /\ NoSink /\ reads = << >> /\ written = << >>
    /\ Count("connect") = 1
    /\ pc \in {"fatal", "finally", "exited"}
    /\ (Exited /\ Uninterrupted => exitStatus = 1)

C8_Witness ==
  failure = "connect" /\ exitStatus = 1 /\ Uninterrupted

(* C9: once recv has returned zero bytes the loop is left by break, that   *)
(* read is the last one and no write follows it, and an uninterrupted run  *)
(* then ends with status 0, no exception in flight and every handle        *)
(* released by teardown.                                                   *)
ZeroRead == \E i \in 1..Len(reads) : reads[i] = << >>

C9_ZeroReadEndsLoop ==
  ZeroRead =>
    /\ loopExit = "closed"
    /\ pc \in {"stream_end", "finally", "exited"}
    /\ \A i \in 1..Len(reads) : reads[i] = << >> => i = Len(reads)
    /\ Len(written) = Len(reads) - 1
    /\ (Exited /\ Uninterrupted =>
          /\ exitStatus = 0 /\ pending = "none"
          /\ \A h \in Handles : handle[h] = "closed" /\ released[h] = 1)

C9_Witness ==
  ZeroRead /\ exitStatus = 0 /\ Uninterrupted /\ Len(written) = MaxReads

(* C10: the chunks written to the sink are the chunks read, in order and   *)
(* unaltered; each chunk is written before the next recv is issued; and    *)
(* when the loop ends on the peer's close every non-empty chunk read has   *)
(* been written.                                                           *)
C10_PassThrough ==
  /\ Len(written) <= Len(reads)
  /\ \A i \in 1..Len(written) : written[i] = reads[i] /\ written[i] # << >>
  /\ Len(reads) - Len(written) <= 1
  /\ (pc = "recv" => written = reads)
  /\ (loopExit = "closed" => reads = Append(written, << >>))

C10_Witness ==
  /\ loopExit = "closed" /\ Len(written) = 2 /\ written[1] # written[2]

(* C11 as stated: a run that SIGINT or SIGTERM interrupted before its      *)
(* playback loop had ended by itself (during the environment check, the    *)
(* provisioning, the permission polling, the connect or the loop) has had  *)
(* teardown invoked by the handler and, once exited, has status 0.         *)
Interrupted == sigCount > 0 /\ loopExit = "none"

SocketOpen == handle["socket"] = "open"
SinkOpen == handle["audio_stream"] = "open"

C12_BothOrNeither == SocketOpen <=> SinkOpen

(* C12 amended: in every reachable state the audio sink is open only       *)
(* while the stream connection is open (and the audio library instance     *)
(* with it), and no sink exists before the socket does; the socket alone   *)
(* is open between its creation and the sink's, and in teardown after the  *)
(* sink was closed.                                                        *)
C12_SinkOnlyWithSocket ==
  /\ SinkOpen => SocketOpen /\ handle["pyaudio_instance"] = "open"
  /\ handle["socket"] = "none" => NoSink

C12_Witness ==
  /\ pc = "finally" /\ Uninterrupted
  /\ SocketOpen /\ handle["audio_stream"] = "closed"

(* C13: once a read or a write of the playback loop has failed, the loop   *)
(* has been left without an exception in flight, no further read or write  *)
(* is performed, and an uninterrupted run ends as it does on the peer's    *)
(* close: every handle released once by teardown, status 0.                *)
IoError == loopExit = "ioerror"

C13_IoErrorEndsLoop ==
  /\ [](IoError =>
          /\ pc \in {"stream_end", "finally", "exited"}
          /\ (Uninterrupted /\ pc = "stream_end" => pending = "none")
          /\ (Exited /\ Uninterrupted =>
                /\ exitStatus = 0 /\ pending = "none"
                /\ \A h \in Handles :
                     handle[h] = "closed" /\ released[h] = 1))
  /\ [][IoError => UNCHANGED <<reads, written>>]_vars

C13_Witness ==
  IoError /\ exitStatus = 0 /\ Uninterrupted /\ Len(reads) > Len(written)

(* C14 as stated: when the service poll loop has reached its ceiling       *)
(* without detecting the service, metadata_enabled is false, whatever the  *)
(* notification-permission polls before it returned.                       *)
SoftTimeout == svcResult = "timeout"

StepOrder ==
  <<"version", "get-state", "pm-list", "install", "appops", "forward",
    "am-start", "settings", "dumpsys", "connect">>
Rank(name) == CHOOSE i \in 1..Len(StepOrder) : StepOrder[i] = name
Optional(name) == name \in {"install", "dumpsys"}
Mandatory(name) == ~Optional(name)

C15_ForwardOnly ==
  /\ \A i \in 1..Len(calls) : \E j \in 1..Len(StepOrder) :
       calls[i] = StepOrder[j]
  /\ \A i \in 1..(Len(calls) - 1) : Rank(calls[i]) < Rank(calls[i + 1])
  /\ LET done == SelectSeq(calls, Mandatory)
     IN  done = SubSeq(SelectSeq(StepOrder, Mandatory), 1, Len(done))
  /\ Issued("connect") => Issued("forward") /\ Issued("am-start")
  /\ (~NoSink \/ reads # << >>) => Issued("connect")

C15_Witness ==
  calls = StepOrder /\ written # << >> /\ Exited /\ Uninterrupted

(* C16 as stated: over all the executions of teardown in a run, the one    *)
(* of the signal handler followed by the one of main's finally clause      *)
(* included, no handle is released that was never acquired and no handle   *)
(* is released more than once.                                             *)
C16_ReleasedAtMostOnce ==
  \A h \in Handles :
    /\ released[h] <= 1
    /\ (handle[h] = "none" => released[h] = 0)

(* C17 as stated: once a fatal precondition failure has been detected the  *)
(* process exits with status 1, whatever signals are delivered between     *)
(* the detection and the termination.                                      *)
FatalDetected == failure # "none"

C17_FailureExitsOne == (FatalDetected /\ Exited) => exitStatus = 1

(* C17 amended: once a fatal precondition failure has been detected the    *)
(* process exits with status 1 when no signal is delivered before it has   *)
(* terminated, and with status 0 when one is: the sys.exit(0) of the       *)
(* handler replaces the exit that was pending.                             *)
C17_SignalOverridesFailure ==
  (FatalDetected /\ Exited) =>
    /\ exitStatus = (IF Uninterrupted THEN 1 ELSE 0)
    /\ pending = (IF Uninterrupted THEN "exit1" ELSE "exit0")

C17_Witness ==
  FatalDetected /\ Exited /\ ~Uninterrupted /\ exitStatus = 0

(* C18: whenever the playback loop is about to read from the socket or to  *)
(* write to the sink, both are open and no teardown has touched them; and  *)
(* once a signal handler has run, no read or write is performed any more.  *)
InLoop == pc \in {"recv", "write"}

C18_LoopHandlesOpen ==
  /\ []((InLoop /\ MainRuns) =>
          /\ SocketOpen /\ SinkOpen
          /\ Uninterrupted
          /\ \A h \in Handles : released[h] = 0)
  /\ [][~Uninterrupted => UNCHANGED <<reads, written>>]_vars
  /\ [][(reads' # reads \/ written' # written) =>
          SocketOpen /\ SinkOpen /\ SocketOpen' /\ SinkOpen']_vars

C18_Witness ==
  /\ Exited /\ ~Uninterrupted /\ loopExit = "none"
  /\ written # << >> /\ Len(reads) > Len(written)
  /\ \A h \in Handles : handle[h] = "closed"

(* C19: the permission wait terminates.  Each of its two loops makes at    *)
(* most max_wait_time / check_interval = 15 polls, every poll that does    *)
(* not end its loop advances the clock by check_interval, every step of    *)
(* the wait moves forward through permission loop, service loop, return,   *)
(* and the step after the wait is the connection stage; while the wait     *)
(* is not interrupted by a signal it records no failure and does not exit, *)
(* and, the main thread being scheduled, it reaches the connection stage.  *)
MaxPolls == max_wait_time \div check_interval
WaitOrder ==
  <<"wait_perm", "wait_svc_start", "wait_svc", "wait_return",
    "connect_socket">>
WaitRank(at) == CHOOSE i \in 1..Len(WaitOrder) : WaitOrder[i] = at
Waiting == \E i \in 1..(Len(WaitOrder) - 1) : WaitOrder[i] = pc

C19_WaitTerminates ==
  /\ [](/\ polls <= MaxPolls /\ elapsed <= max_wait_time
        /\ (pc \in {"wait_perm", "wait_svc"} =>
              elapsed = polls * check_interval)
        /\ (Waiting /\ Uninterrupted =>
              exitStatus = -1 /\ failure = "none" /\ pending = "none"))
  /\ [][(Waiting /\ Uninterrupted') =>
          \/ /\ pc' = pc
             /\ polls' = polls + 1
             /\ elapsed' = elapsed + check_interval
          \/ /\ \E i \in 1..Len(WaitOrder) : WaitOrder[i] = pc'
             /\ WaitRank(pc') > WaitRank(pc)]_vars
  /\ (Waiting /\ Uninterrupted) ~> (pc = "connect_socket" \/ ~Uninterrupted)

C19_Witness ==
  /\ pc = "wait_return" /\ polls = MaxPolls /\ svcResult = "timeout"
  /\ permReport = "null" /\ ~metadata_enabled /\ Uninterrupted

====
